---- MODULE Spec2Model ----
(***************************************************************************)
(* Startup, segment discovery and shutdown of the ignite storage engine,   *)
(* with its options, its error classifiers and its key-value interface.    *)
(*                                                                         *)
(* The segment directory is a map from file names to byte lengths.  A file *)
(* name is the sequence of character codes fmt.Sprintf produces, so that   *)
(* slices.Sort (byte-wise lexicographic order) and ParseSegmentID act on   *)
(* the rendered text and not on the numbers it came from.                  *)
(***************************************************************************)
EXTENDS Integers, Sequences, FiniteSets, TLC

\* ------------------------------------------------------------------ bounds

\* Number of files the directory holds before the first startup.
MaxInitFiles == 2
\* Number of startups (engine.New calls) in one behaviour.
MaxStartups == 2
\* Number of goroutines that call Close on one engine (SpecClose).
NumCallers == 2
\* Options.SegmentOptions.Size, scaled down (the code only compares with it).
SegmentSize == 2
\* Number of instances NewInstance builds in one process (SpecOptions).
MaxInstances == 2
\* Number of option functions one NewInstance call is given.
MaxOptions == 1
\* Number of typed or formatted errors wrapped around one plain error.
MaxChain == 2

\* ------------------------------------------------------- program constants

\* Largest value of RecordPointer.SegmentID (uint16).
MaxSegmentID == 65535
\* Width of the zero padding in "%05d".
PadWidth == 5

\* ---------------------------------------------------------------- inputs

\* Readings of time.Now().UnixNano(), all of one decimal width as they are
\* for every date between 2001 and 2286.
Timestamps == {17, 18}
\* Creation times of the segment files present before the first startup.
InitTimestamps == {17}
\* Ids of the segment files present before the first startup.
InitIds == {1, 65535, 99999, 100000}
\* Byte lengths of the files present before the first startup.
InitSizes == {SegmentSize - 1, SegmentSize, SegmentSize + 1}
\* Where a startup can fail: nowhere, or at one of its I/O calls.
Failures == {"none", "mkdir", "glob", "stat", "open", "seek"}
Callers == 1..NumCallers

NULL == [null |-> TRUE]
NoFile == <<>>
\* No call has been made yet.
NoCall == [fn |-> "none"]
\* Keys and values given to Set, Get and Delete.
Keys == {"k"}
Values == {"v1", "v2"}

\* ----------------------------------------------------------- text helpers

\* "segment"
DefaultSegmentPrefix == <<115, 101, 103, 109, 101, 110, 116>>
\* ".seg"
Extension == <<46, 115, 101, 103>>
\* "_"
Underscore == 95
\* "."
Dot == 46
\* "/"
Slash == 47
\* "INVALID_PREFIX"
InvalidPrefix == <<73, 78, 86, 65, 76, 73, 68, 95, 80, 82, 69, 70, 73, 88>>
\* Prefixes given to GenerateName and ParseSegmentID: "", "segment", "a_b",
\* "a.b" and "a/b".
Prefixes ==
    {<<>>, DefaultSegmentPrefix, <<97, Underscore, 98>>, <<97, Dot, 98>>, <<97, Slash, 98>>}
\* Directory paths a file name is joined to: none, "d/" and "/d.e/f_g/".
DirPaths == {<<>>, <<100, Slash>>, <<Slash, 100, Dot, 101, Slash, 102, Underscore, 103, Slash>>}
\* Segment ids given to GenerateName.
SegmentIds == {0, 1, 99999, 100000}
\* A file that is not a segment: "x.seg"
ForeignFile == <<120, 46, 115, 101, 103>>

\* %d of a non-negative integer.
RECURSIVE Dec(_)
Dec(n) == IF n < 10 THEN <<48 + n>> ELSE Dec(n \div 10) \o <<48 + (n % 10)>>

RECURSIVE Zeros(_)
Zeros(k) == IF k <= 0 THEN <<>> ELSE <<48>> \o Zeros(k - 1)

\* %05d: at least PadWidth digits, more when the number needs them.
Pad5(n) == Zeros(PadWidth - Len(Dec(n))) \o Dec(n)

HasPrefix(s, p) == Len(s) >= Len(p) /\ SubSeq(s, 1, Len(p)) = p
HasSuffix(s, p) == Len(s) >= Len(p) /\ SubSeq(s, Len(s) - Len(p) + 1, Len(s)) = p
TrimPrefix(s, p) == IF HasPrefix(s, p) THEN SubSeq(s, Len(p) + 1, Len(s)) ELSE s

\* strings.Split(s, c) for a one-character separator.
RECURSIVE Split(_, _)
Split(s, c) ==
    IF \A i \in 1..Len(s) : s[i] # c
    THEN <<s>>
    ELSE LET i == CHOOSE k \in 1..Len(s) : s[k] = c /\ \A j \in 1..(k - 1) : s[j] # c
         IN  <<SubSeq(s, 1, i - 1)>> \o Split(SubSeq(s, i + 1, Len(s)), c)

\* Value of a string of decimal digits.
RECURSIVE DigitsValue(_)
DigitsValue(s) ==
    IF s = <<>> THEN 0 ELSE 10 * DigitsValue(SubSeq(s, 1, Len(s) - 1)) + (s[Len(s)] - 48)

\* strconv.ParseUint(s, 10, 64): fails on the empty string and on a non-digit.
ParseUint(s) ==
    IF s # <<>> /\ \A i \in 1..Len(s) : s[i] \in 48..57
    THEN [ok |-> TRUE, val |-> DigitsValue(s)]
    ELSE [ok |-> FALSE, val |-> 0]

\* Byte-wise order of Go strings.
RECURSIVE LexLess(_, _)
LexLess(a, b) ==
    IF a = <<>> THEN b # <<>>
    ELSE IF b = <<>> THEN FALSE
    ELSE IF Head(a) # Head(b) THEN Head(a) < Head(b)
    ELSE LexLess(Tail(a), Tail(b))

\* slices.Sort of a list of distinct strings.
RECURSIVE SortNames(_)
SortNames(S) ==
    IF S = {} THEN <<>>
    ELSE LET m == CHOOSE x \in S : \A y \in S : y = x \/ LexLess(x, y)
         IN  <<m>> \o SortNames(S \ {m})

\* ------------------------------------------------------------- seginfo

GenerateName(id, prefix, now) ==
    IF prefix = <<>>
    THEN InvalidPrefix \o <<Underscore>> \o Pad5(id) \o <<Underscore>> \o Dec(now) \o Extension
    ELSE prefix \o <<Underscore>> \o Pad5(id) \o <<Underscore>> \o Dec(now) \o Extension

\* The file part of filepath.Split: what follows the last "/".
RECURSIVE SplitFile(_)
SplitFile(path) ==
    IF \A i \in 1..Len(path) : path[i] # Slash THEN path
    ELSE SplitFile(Tail(path))

ParseSegmentID(fullPath, prefix) ==
    LET filename == SplitFile(fullPath)
    IN  IF ~HasPrefix(filename, prefix)
        THEN [ok |-> FALSE, val |-> 0]
        ELSE LET withoutPrefix == TrimPrefix(filename, prefix)
                 withoutExtension == Split(withoutPrefix, Dot)[1]
                 parts == Split(withoutExtension, Underscore)
             IN  IF Len(parts) < 3 THEN [ok |-> FALSE, val |-> 0] ELSE ParseUint(parts[2])

\* filepath.Glob(prefix + "*.seg") over the names of the directory.
ReadDir(d, prefix) ==
    {n \in DOMAIN d : HasPrefix(n, prefix) /\ HasSuffix(TrimPrefix(n, prefix), Extension)}

\* The last name in sorted order, or the empty name when nothing matches.
GetLastSegmentName(d, prefix) ==
    LET matchingFiles == SortNames(ReadDir(d, prefix))
    IN  IF Len(matchingFiles) = 0 THEN NoFile ELSE matchingFiles[Len(matchingFiles)]

\* (id, info, err); info is the size of the file, or NULL for "no segments".
GetLastSegmentInfo(d, prefix, fail) ==
    IF fail = "glob" THEN [err |-> TRUE, id |-> 0, info |-> NULL, name |-> NoFile]
    ELSE LET lastSegmentPath == GetLastSegmentName(d, prefix)
         IN  IF lastSegmentPath = NoFile
             THEN [err |-> FALSE, id |-> 1, info |-> NULL, name |-> NoFile]
             ELSE LET segmentID == ParseSegmentID(lastSegmentPath, prefix)
                  IN  IF ~segmentID.ok \/ fail = "stat"
                      THEN [err |-> TRUE, id |-> 0, info |-> NULL, name |-> lastSegmentPath]
                      ELSE [err |-> FALSE, id |-> segmentID.val,
                            info |-> [size |-> d[lastSegmentPath]], name |-> lastSegmentPath]

\* ------------------------------------------------------------- storage

VARIABLES
    dir,       \* the segment directory: file name -> byte length
    found,     \* the directory as the latest startup found it
    fault,     \* the I/O call that failed in the latest startup, or "none"
    storage,   \* the Storage the latest startup returned, or NULL
    engine,    \* the Engine the latest startup returned, or NULL
    newErr,    \* whether the latest startup returned an error
    handle,    \* the os.File behind activeSegment: "none", "open", "closed"
    fileOps,   \* the calls made on that os.File, in order
    pc,        \* where each Close caller is
    via,       \* which Close each caller called: "engine" or "storage"
    ret,       \* what each caller's Close returned
    startups,  \* number of startups so far
    defaultOptions,  \* the package variable options.defaultOptions
    heap,      \* the segmentOptions objects, by address
    instances, \* the Options of the instances built so far, oldest first
    built,     \* what each instance's options read when it was built
    call,      \* the latest call studied on its own, with what it returned
    written    \* per key, what the latest successful Set or Delete left

storageVars == <<dir, found, fault, storage, engine, newErr, handle, fileOps, pc, via, ret, startups>>
optionVars == <<defaultOptions, heap, instances, built>>
apiVars == <<call, written>>

vars == <<storageVars, optionVars, apiVars>>

\* The size test of New: a segment of exactly the maximum size is full.
IsFull(currentSize, maxSize) == currentSize >= maxSize

\* The id New gives the segment that follows a full one.
NextSegmentID(lastSegmentID) == lastSegmentID + 1

\* ChooseSegment with the bootstrap id off by one (ids counted from 0).
ChooseSegment_BootstrapZero(lastSegmentID, lastSegmentInfo, maxSize) ==
    IF lastSegmentInfo = NULL
    THEN [size |-> 0, targetSegmentID |-> 0, shouldCreateNewSegment |-> TRUE]
    ELSE IF IsFull(lastSegmentInfo.size, maxSize)
         THEN [size |-> 0, targetSegmentID |-> NextSegmentID(lastSegmentID),
               shouldCreateNewSegment |-> TRUE]
         ELSE [size |-> lastSegmentInfo.size, targetSegmentID |-> lastSegmentID,
               shouldCreateNewSegment |-> FALSE]

\* The branch of New: size, target id and whether a new segment is wanted.
ChooseSegment(lastSegmentID, lastSegmentInfo, maxSize) ==
    IF lastSegmentInfo = NULL
    THEN [size |-> 0, targetSegmentID |-> 1, shouldCreateNewSegment |-> TRUE]
    ELSE IF IsFull(lastSegmentInfo.size, maxSize)
         THEN [size |-> 0, targetSegmentID |-> NextSegmentID(lastSegmentID),
               shouldCreateNewSegment |-> TRUE]
         ELSE [size |-> lastSegmentInfo.size, targetSegmentID |-> lastSegmentID,
               shouldCreateNewSegment |-> FALSE]

\* os.OpenFile(path, O_CREATE|O_RDWR|O_APPEND): the file is created empty
\* when the directory has no file of that name.
OpenFile(d, filename) ==
    IF filename \in DOMAIN d THEN d
    ELSE [n \in DOMAIN d \cup {filename} |-> IF n = filename THEN 0 ELSE d[n]]

\* openSegmentFile with the error of Seek dropped.
OpenSegmentFile_SeekIgnored(d, segmentID, prefix, now, fail) ==
    LET filename == GenerateName(segmentID, prefix, now)
    IN  IF fail = "open" THEN [err |-> TRUE, file |-> NoFile, dir |-> d]
        ELSE [err |-> FALSE, file |-> filename, dir |-> OpenFile(d, filename)]

\* (file, err) of openSegmentFile, and the directory it leaves behind.
OpenSegmentFile(d, segmentID, prefix, now, fail) ==
    LET filename == GenerateName(segmentID, prefix, now)
    IN  IF fail = "open" THEN [err |-> TRUE, file |-> NoFile, dir |-> d]
        ELSE IF fail = "seek" THEN [err |-> TRUE, file |-> NoFile, dir |-> OpenFile(d, filename)]
        ELSE [err |-> FALSE, file |-> filename, dir |-> OpenFile(d, filename)]

\* storage.New with activeSegmentId taken from the discovery and not from
\* the branch.
StorageNew_IdFromDiscovery(d, prefix, maxSize, now, fail) ==
    IF fail = "mkdir" THEN [err |-> TRUE, storage |-> NULL, dir |-> d]
    ELSE LET last == GetLastSegmentInfo(d, prefix, fail)
         IN  IF last.err THEN [err |-> TRUE, storage |-> NULL, dir |-> d]
             ELSE LET c == ChooseSegment(last.id, last.info, maxSize)
                      f == OpenSegmentFile(d, c.targetSegmentID, prefix, now, fail)
                  IN  IF f.err THEN [err |-> TRUE, storage |-> NULL, dir |-> f.dir]
                      ELSE [err |-> FALSE,
                            storage |-> [size |-> c.size,
                                         activeSegmentId |-> last.id,
                                         activeSegment |-> f.file,
                                         closed |-> FALSE],
                            dir |-> f.dir]

\* (storage, err) of storage.New, and the directory it leaves behind.
StorageNew(d, prefix, maxSize, now, fail) ==
    IF fail = "mkdir" THEN [err |-> TRUE, storage |-> NULL, dir |-> d]
    ELSE LET last == GetLastSegmentInfo(d, prefix, fail)
         IN  IF last.err THEN [err |-> TRUE, storage |-> NULL, dir |-> d]
             ELSE LET c == ChooseSegment(last.id, last.info, maxSize)
                      f == OpenSegmentFile(d, c.targetSegmentID, prefix, now, fail)
                  IN  IF f.err THEN [err |-> TRUE, storage |-> NULL, dir |-> f.dir]
                      ELSE [err |-> FALSE,
                            storage |-> [size |-> c.size,
                                         activeSegmentId |-> c.targetSegmentID,
                                         activeSegment |-> f.file,
                                         closed |-> FALSE],
                            dir |-> f.dir]

\* (engine, err) of engine.New, given what storage.New returned.
EngineNewResult(s) ==
    IF s.err THEN [err |-> TRUE, engine |-> NULL]
    ELSE [err |-> FALSE,
          engine |-> [closed |-> FALSE,
                      index |-> [closed |-> FALSE, recordPointer |-> <<>>]]]

\* Storage.Close with the file closed first and synced afterwards.
StorageCloseBody_CloseFirst(syncOk, closeOk) ==
    IF ~syncOk
    THEN [ops |-> <<[op |-> "close", ok |-> closeOk], [op |-> "sync", ok |-> FALSE]>>,
          ret |-> "SyncError", clear |-> FALSE]
    ELSE IF ~closeOk
         THEN [ops |-> <<[op |-> "close", ok |-> FALSE], [op |-> "sync", ok |-> TRUE]>>,
               ret |-> "CloseError", clear |-> FALSE]
         ELSE [ops |-> <<[op |-> "close", ok |-> TRUE], [op |-> "sync", ok |-> TRUE]>>,
               ret |-> "nil", clear |-> TRUE]

\* Storage.Close with the error of the final file close dropped.
StorageCloseBody_CloseErrorDropped(syncOk, closeOk) ==
    IF ~syncOk
    THEN [ops |-> <<[op |-> "sync", ok |-> FALSE], [op |-> "close", ok |-> closeOk]>>,
          ret |-> "SyncError", clear |-> FALSE]
    ELSE [ops |-> <<[op |-> "sync", ok |-> TRUE], [op |-> "close", ok |-> closeOk]>>,
          ret |-> "nil", clear |-> TRUE]

\* Storage.Close returning the error of the file close when the sync and
\* the close both failed.
StorageCloseBody_CloseErrorWins(syncOk, closeOk) ==
    IF ~syncOk
    THEN [ops |-> <<[op |-> "sync", ok |-> FALSE], [op |-> "close", ok |-> closeOk]>>,
          ret |-> IF closeOk THEN "SyncError" ELSE "CloseError", clear |-> FALSE]
    ELSE IF ~closeOk
         THEN [ops |-> <<[op |-> "sync", ok |-> TRUE], [op |-> "close", ok |-> FALSE]>>,
               ret |-> "CloseError", clear |-> FALSE]
         ELSE [ops |-> <<[op |-> "sync", ok |-> TRUE], [op |-> "close", ok |-> TRUE]>>,
               ret |-> "nil", clear |-> TRUE]

\* The body of Storage.Close after the closed flag is won: the calls it
\* makes on the file, what it returns and whether it clears activeSegment.
StorageCloseBody(syncOk, closeOk) ==
    IF ~syncOk
    THEN [ops |-> <<[op |-> "sync", ok |-> FALSE], [op |-> "close", ok |-> closeOk]>>,
          ret |-> "SyncError", clear |-> FALSE]
    ELSE IF ~closeOk
         THEN [ops |-> <<[op |-> "sync", ok |-> TRUE], [op |-> "close", ok |-> FALSE]>>,
               ret |-> "CloseError", clear |-> FALSE]
         ELSE [ops |-> <<[op |-> "sync", ok |-> TRUE], [op |-> "close", ok |-> TRUE]>>,
               ret |-> "nil", clear |-> TRUE]

\* ------------------------------------------------------------- options

\* MinSegmentSize, MaxSegmentSize and DefaultSegmentSize, in MiB.
MinSegmentSize == 512
MaxSegmentSize == 4096
DefaultSegmentSize == 1024
\* DefaultCompactInterval, in hours.
DefaultCompactInterval == 5
\* "/var/lib/ignitedb"
DefaultDataDir == <<47, 118, 97, 114, 47, 108, 105, 98, 47, 105, 103, 110, 105, 116, 101, 100, 98>>
\* "/segments"
DefaultSegmentDirectory == <<47, 115, 101, 103, 109, 101, 110, 116, 115>>
\* " "
Space == 32
\* The address of the segmentOptions object the package allocates for
\* defaultOptions; no other segmentOptions object is ever allocated.
DefaultsAddr == "&segmentOptions{}"

\* Arguments given to the option functions: "" and " a" for the strings.
Strings == {<<>>, <<Space, 97>>}
Intervals == {DefaultCompactInterval - 1, DefaultCompactInterval, DefaultCompactInterval + 1}
Sizes ==
    {MinSegmentSize - 1, MinSegmentSize, MinSegmentSize + 1,
     MaxSegmentSize - 1, MaxSegmentSize, MaxSegmentSize + 1}

\* strings.TrimSpace, on strings whose only white space is " ".
RECURSIVE TrimSpace(_)
TrimSpace(s) ==
    IF s = <<>> THEN s
    ELSE IF Head(s) = Space THEN TrimSpace(Tail(s))
    ELSE IF s[Len(s)] = Space THEN TrimSpace(SubSeq(s, 1, Len(s) - 1))
    ELSE s

\* NewDefaultOptions returns the package variable by value: the copy carries
\* the same SegmentOptions pointer.
NewDefaultOptions(d) == d

\* An option function is applied to an Options value o over the heap h and
\* leaves (o, h).
WithDefaultOptions(d, o, h) ==
    LET opts == NewDefaultOptions(d)
    IN  [o |-> [o EXCEPT !.DataDir = opts.DataDir,
                         !.SegmentOptions = opts.SegmentOptions,
                         !.CompactInterval = opts.CompactInterval],
         h |-> h]

WithDataDir(directory, o, h) ==
    IF TrimSpace(directory) # <<>>
    THEN [o |-> [o EXCEPT !.DataDir = TrimSpace(directory)], h |-> h]
    ELSE [o |-> o, h |-> h]

WithCompactInterval(interval, o, h) ==
    IF interval > DefaultCompactInterval
    THEN [o |-> [o EXCEPT !.CompactInterval = interval], h |-> h]
    ELSE [o |-> o, h |-> h]

WithSegmentDir(directory, o, h) ==
    IF TrimSpace(directory) # <<>>
    THEN [o |-> o, h |-> [h EXCEPT ![o.SegmentOptions].Directory = TrimSpace(directory)]]
    ELSE [o |-> o, h |-> h]

WithSegmentPrefix(prefix, o, h) ==
    IF TrimSpace(prefix) # <<>>
    THEN [o |-> o, h |-> [h EXCEPT ![o.SegmentOptions].Prefix = TrimSpace(prefix)]]
    ELSE [o |-> o, h |-> h]

\* WithSegmentSize without the test of the size.
WithSegmentSize_Unchecked(size, o, h) ==
    [o |-> o, h |-> [h EXCEPT ![o.SegmentOptions].Size = size]]

WithSegmentSize(size, o, h) ==
    IF size > MinSegmentSize /\ size < MaxSegmentSize
    THEN [o |-> o, h |-> [h EXCEPT ![o.SegmentOptions].Size = size]]
    ELSE [o |-> o, h |-> h]

\* The option functions a caller can pass, each with its argument.
OptionFuncs ==
    {[fn |-> "WithDefaultOptions", arg |-> <<>>]}
        \cup {[fn |-> "WithDataDir", arg |-> x] : x \in Strings}
        \cup {[fn |-> "WithCompactInterval", arg |-> x] : x \in Intervals}
        \cup {[fn |-> "WithSegmentDir", arg |-> x] : x \in Strings}
        \cup {[fn |-> "WithSegmentPrefix", arg |-> x] : x \in Strings}
        \cup {[fn |-> "WithSegmentSize", arg |-> x] : x \in Sizes}

OptionLists == UNION {[1..n -> OptionFuncs] : n \in 0..MaxOptions}

\* opt(&defaultOpts) for one option function.
ApplyOption(f, d, o, h) ==
    CASE f.fn = "WithDefaultOptions" -> WithDefaultOptions(d, o, h)
      [] f.fn = "WithDataDir" -> WithDataDir(f.arg, o, h)
      [] f.fn = "WithCompactInterval" -> WithCompactInterval(f.arg, o, h)
      [] f.fn = "WithSegmentDir" -> WithSegmentDir(f.arg, o, h)
      [] f.fn = "WithSegmentPrefix" -> WithSegmentPrefix(f.arg, o, h)
      [] f.fn = "WithSegmentSize" -> WithSegmentSize(f.arg, o, h)

\* The loop of NewInstance over opts.
RECURSIVE ApplyOptions(_, _, _, _)
ApplyOptions(opts, d, o, h) ==
    IF opts = <<>> THEN [o |-> o, h |-> h]
    ELSE LET r == ApplyOption(Head(opts), d, o, h)
         IN  ApplyOptions(Tail(opts), d, r.o, r.h)

\* What an Options value reads, its SegmentOptions pointer followed.
Deref(o, h) ==
    [DataDir |-> o.DataDir, CompactInterval |-> o.CompactInterval,
     SegmentOptions |-> h[o.SegmentOptions]]

\* ------------------------------------------------------------- errors

\* The errno values the classifiers are given.
Errnos == {"EPERM", "EACCES", "ENOSPC", "EROFS", "EIO", "ENOENT", "EEXIST"}
\* The dynamic types an error carrying an errno can have.
ErrnoCarriers == {"*os.PathError", "*os.LinkError", "*os.SyscallError", "syscall.Errno"}
\* The errors the classifiers are given: an errno in one of its carriers,
\* the sentinel os.ErrPermission, or an error that carries no errno.
Errors ==
    {[type |-> t, errno |-> e] : t \in ErrnoCarriers, e \in Errnos}
        \cup {[type |-> "os.ErrPermission", errno |-> "none"],
              [type |-> "*errors.errorString", errno |-> "none"]}

\* os.IsPermission: the error inside a PathError, LinkError or SyscallError,
\* or the error itself, is os.ErrPermission, EACCES or EPERM.
IsPermission(err) ==
    \/ err.type = "os.ErrPermission"
    \/ err.type \in ErrnoCarriers /\ err.errno \in {"EACCES", "EPERM"}

\* err.(*os.PathError) and pathErr.Err.(syscall.Errno): the errno, when the
\* error is a PathError itself.
PathErrno(err) == IF err.type = "*os.PathError" THEN err.errno ELSE "none"

NewStorageError(err, code) == [type |-> "*StorageError", cause |-> err, code |-> code]

ClassifyDirectoryCreationError(err) ==
    IF IsPermission(err) THEN NewStorageError(err, "PERMISSION_DENIED")
    ELSE IF PathErrno(err) = "ENOSPC" THEN NewStorageError(err, "DISK_FULL")
    ELSE IF PathErrno(err) = "EROFS" THEN NewStorageError(err, "FILESYSTEM_READONLY")
    ELSE NewStorageError(err, "IO_ERROR")

ClassifyFileOpenError(err) ==
    IF IsPermission(err) THEN NewStorageError(err, "PERMISSION_DENIED")
    ELSE IF PathErrno(err) = "ENOSPC" THEN NewStorageError(err, "DISK_FULL")
    ELSE IF PathErrno(err) = "EROFS" THEN NewStorageError(err, "FILESYSTEM_READONLY")
    ELSE NewStorageError(err, "IO_ERROR")

\* ClassifySyncError with the permission case of the two other classifiers.
ClassifySyncError_WithPermission(err) ==
    IF IsPermission(err) THEN NewStorageError(err, "PERMISSION_DENIED")
    ELSE IF PathErrno(err) = "ENOSPC" THEN NewStorageError(err, "DISK_FULL")
    ELSE IF PathErrno(err) = "EROFS" THEN NewStorageError(err, "FILESYSTEM_READONLY")
    ELSE NewStorageError(err, "IO_ERROR")

ClassifySyncError(err) ==
    IF PathErrno(err) = "ENOSPC" THEN NewStorageError(err, "DISK_FULL")
    ELSE IF PathErrno(err) = "EROFS" THEN NewStorageError(err, "FILESYSTEM_READONLY")
    ELSE IF PathErrno(err) = "EIO" THEN NewStorageError(err, "IO_ERROR")
    ELSE NewStorageError(err, "IO_ERROR")

\* The other two typed errors: the same base error under another type.
NewValidationError(err, code) ==
    [type |-> "*ValidationError", cause |-> err, code |-> code]

NewIndexError(err, code) == [type |-> "*IndexError", cause |-> err, code |-> code]

\* fmt.Errorf("...: %w", err): an error of no typed kind that wraps err.
Errorf(err) == [type |-> "*fmt.wrapError", cause |-> err]

\* Codes the constructors are given.
ErrorCodes == {"INVALID_INPUT", "IO_ERROR", "INDEX_CORRUPTED"}

\* Errors with up to n wrappers around a plain error or around no cause.
RECURSIVE ErrorChains(_)
ErrorChains(n) ==
    IF n = 0 THEN {NULL, [type |-> "*errors.errorString"]}
    ELSE LET inner == ErrorChains(n - 1)
         IN  inner
                 \cup {NewValidationError(c, code) : c \in inner, code \in ErrorCodes}
                 \cup {NewStorageError(c, code) : c \in inner, code \in ErrorCodes}
                 \cup {NewIndexError(c, code) : c \in inner, code \in ErrorCodes}
                 \cup {Errorf(c) : c \in inner \ {NULL}}

\* errors.As with a target of the given type: the first error of the chain
\* err, err.Unwrap(), ... that has this type, or NULL when there is none.
RECURSIVE As(_, _)
As(err, type) ==
    IF err = NULL THEN NULL
    ELSE IF err.type = type THEN err
    ELSE IF "cause" \in DOMAIN err THEN As(err.cause, type)
    ELSE NULL

AsValidationError(err) == As(err, "*ValidationError")

AsStorageError(err) == As(err, "*StorageError")

AsIndexError(err) == As(err, "*IndexError")

GetErrorCode(err) ==
    IF AsValidationError(err) # NULL THEN AsValidationError(err).code
    ELSE IF AsStorageError(err) # NULL THEN AsStorageError(err).code
    ELSE IF AsIndexError(err) # NULL THEN AsIndexError(err).code
    ELSE "INTERNAL_ERROR"

\* ------------------------------------------------- configuration checks

\* A logger, and the Options values a configuration can point to.
Logger == [logger |-> TRUE]
OptionsValues ==
    {[SegmentOptions |-> NULL],
     [SegmentOptions |-> [Size |-> DefaultSegmentSize,
                          Prefix |-> DefaultSegmentPrefix,
                          Directory |-> DefaultSegmentDirectory]]}
\* *engine.Config and *storage.Config: nil, or Options and Logger, each nil or set.
Configs ==
    {NULL} \cup {[Options |-> o, Logger |-> l] :
                    o \in {NULL} \cup OptionsValues, l \in {NULL, Logger}}
\* *index.Config: nil, or DataDir ("" or "a") and Logger.
IndexConfigs ==
    {NULL} \cup {[DataDir |-> d, Logger |-> l] : d \in {<<>>, <<97>>}, l \in {NULL, Logger}}

\* What a constructor does with a configuration: it returns a
\* ValidationError of code INVALID_INPUT, it panics on a nil pointer, it
\* returns an instance, or it goes on to the filesystem.
InvalidInput == [panic |-> FALSE, code |-> "INVALID_INPUT", instance |-> FALSE, filesystem |-> FALSE]
NilDereference == [panic |-> TRUE, code |-> "none", instance |-> FALSE, filesystem |-> FALSE]
Returned == [panic |-> FALSE, code |-> "nil", instance |-> TRUE, filesystem |-> FALSE]
Proceeds == [panic |-> FALSE, code |-> "none", instance |-> FALSE, filesystem |-> TRUE]

\* storage.New up to the directory creation: the check of the
\* configuration, then the log line that reads through SegmentOptions.
StorageNewConfig(config) ==
    IF config = NULL \/ config.Options = NULL \/ config.Logger = NULL THEN InvalidInput
    ELSE IF config.Options.SegmentOptions = NULL THEN NilDereference
    ELSE Proceeds

\* engine.New up to storage.New: config is read without a check.
EngineNewConfig(config) ==
    IF config = NULL THEN NilDereference
    ELSE StorageNewConfig([Options |-> config.Options, Logger |-> config.Logger])

\* index.New.
IndexNew(config) ==
    IF config = NULL \/ config.DataDir = <<>> \/ config.Logger = NULL THEN InvalidInput
    ELSE Returned

\* ------------------------------------------------------------- actions

\* Directories the first startup can find: at most MaxInitFiles segment
\* files with distinct ids, with or without a file that is no segment.
InitSegments ==
    {[id |-> i, ts |-> t, size |-> z] : i \in InitIds, t \in InitTimestamps, z \in InitSizes}

InitDirs ==
    {S \in SUBSET InitSegments :
        /\ Cardinality(S) <= MaxInitFiles
        /\ \A a, b \in S : a.id = b.id => a = b}

DirOf(S, foreign) ==
    LET names == {GenerateName(f.id, DefaultSegmentPrefix, f.ts) : f \in S}
        all == IF foreign THEN names \cup {ForeignFile} ELSE names
    IN  [n \in all |->
            IF n = ForeignFile THEN 1
            ELSE (CHOOSE f \in S : GenerateName(f.id, DefaultSegmentPrefix, f.ts) = n).size]

\* The state before the first startup, over a set of directories.
InitOver(D) ==
    /\ \E S \in D, foreign \in BOOLEAN : dir = DirOf(S, foreign)
    /\ found = dir
    /\ fault = "none"
    /\ storage = NULL
    /\ engine = NULL
    /\ newErr = FALSE
    /\ handle = "none"
    /\ fileOps = <<>>
    /\ pc = [p \in Callers |-> "idle"]
    /\ via = [p \in Callers |-> "none"]
    /\ ret = [p \in Callers |-> "none"]
    /\ startups = 0

\* The package variables of options as the declarations leave them.
InitOptions ==
    /\ defaultOptions = [DataDir |-> DefaultDataDir,
                         CompactInterval |-> DefaultCompactInterval,
                         SegmentOptions |-> DefaultsAddr]
    /\ heap = [a \in {DefaultsAddr} |->
                  [Size |-> DefaultSegmentSize,
                   Prefix |-> DefaultSegmentPrefix,
                   Directory |-> DefaultSegmentDirectory]]
    /\ instances = <<>>
    /\ built = <<>>

\* No call made and no key written.
InitApi ==
    /\ call = NoCall
    /\ written = [k \in Keys |-> "absent"]

Init == InitOver(InitDirs) /\ InitOptions /\ InitApi

\* Close is studied on directories of at most one segment file.
InitClose == InitOver({S \in InitDirs : Cardinality(S) <= 1}) /\ InitOptions /\ InitApi

\* An empty directory and no startup yet.
InitNoStorage == InitOver({{}}) /\ dir = <<>> /\ InitOptions /\ InitApi

\* engine.New, which calls storage.New.  The failing call is one the run makes.
EngineNew ==
    \E now \in Timestamps, fail \in Failures :
        /\ storage = NULL
        /\ startups < MaxStartups
        /\ fail = "stat" => ReadDir(dir, DefaultSegmentPrefix) # {}
        /\ LET s == StorageNew(dir, DefaultSegmentPrefix, SegmentSize, now, fail)
               e == EngineNewResult(s)
           IN  /\ dir' = s.dir
               /\ storage' = s.storage
               /\ engine' = e.engine
               /\ newErr' = e.err
               /\ handle' = IF s.err THEN "none" ELSE "open"
        /\ found' = dir
        /\ fault' = fail
        /\ fileOps' = <<>>
        /\ startups' = startups + 1
        /\ UNCHANGED <<pc, via, ret>>
        /\ UNCHANGED <<optionVars, apiVars>>

\* Engine.Close with a plain store to Engine.closed: every caller goes on.
EngineClose_NoCompareAndSwap(p) ==
    /\ engine # NULL
    /\ pc[p] = "idle"
    /\ via' = [via EXCEPT ![p] = "engine"]
    /\ engine' = [engine EXCEPT !.closed = TRUE]
    /\ pc' = [pc EXCEPT ![p] = "storageClose"]
    /\ UNCHANGED ret
    /\ UNCHANGED <<dir, found, fault, storage, newErr, handle, fileOps, startups>>
    /\ UNCHANGED <<optionVars, apiVars>>

\* Engine.Close: the compare-and-swap on Engine.closed, then storage.Close.
EngineClose(p) ==
    /\ engine # NULL
    /\ pc[p] = "idle"
    /\ via' = [via EXCEPT ![p] = "engine"]
    /\ IF engine.closed
       THEN /\ pc' = [pc EXCEPT ![p] = "done"]
            /\ ret' = [ret EXCEPT ![p] = "ErrEngineClosed"]
            /\ UNCHANGED engine
       ELSE /\ engine' = [engine EXCEPT !.closed = TRUE]
            /\ pc' = [pc EXCEPT ![p] = "storageClose"]
            /\ UNCHANGED ret
    /\ UNCHANGED <<dir, found, fault, storage, newErr, handle, fileOps, startups>>
    /\ UNCHANGED <<optionVars, apiVars>>

\* A caller inside the storage package calls Storage.Close itself.
StorageCloseCall(p) ==
    /\ storage # NULL
    /\ pc[p] = "idle"
    /\ via' = [via EXCEPT ![p] = "storage"]
    /\ pc' = [pc EXCEPT ![p] = "storageClose"]
    /\ UNCHANGED <<dir, found, fault, storage, engine, newErr, handle, fileOps, ret, startups>>
    /\ UNCHANGED <<optionVars, apiVars>>

\* Storage.Close: the compare-and-swap on Storage.closed.
StorageCloseEnter(p) ==
    /\ pc[p] = "storageClose"
    /\ IF storage.closed
       THEN /\ pc' = [pc EXCEPT ![p] = "done"]
            /\ ret' = [ret EXCEPT ![p] = "ErrSegmentClosed"]
            /\ UNCHANGED storage
       ELSE /\ storage' = [storage EXCEPT !.closed = TRUE]
            /\ pc' = [pc EXCEPT ![p] = "closing"]
            /\ UNCHANGED ret
    /\ UNCHANGED <<dir, found, fault, engine, newErr, handle, fileOps, via, startups>>
    /\ UNCHANGED <<optionVars, apiVars>>

\* Storage.Close giving the closed flag back when the sync or the close
\* failed, so that a later call can try again.
StorageCloseFinish_RetryOnError(p) ==
    \E syncOk \in BOOLEAN, closeOk \in BOOLEAN :
        /\ pc[p] = "closing"
        /\ LET r == StorageCloseBody(syncOk, closeOk)
           IN  /\ fileOps' = fileOps \o r.ops
               /\ handle' = "closed"
               /\ storage' = IF r.clear THEN [storage EXCEPT !.activeSegment = NoFile]
                             ELSE [storage EXCEPT !.closed = FALSE]
               /\ ret' = [ret EXCEPT ![p] = r.ret]
        /\ pc' = [pc EXCEPT ![p] = "done"]
        /\ UNCHANGED <<dir, found, fault, engine, newErr, via, startups>>
        /\ UNCHANGED <<optionVars, apiVars>>

\* Storage.Close: sync, close and the return, by the caller that won the flag.
StorageCloseFinish(p) ==
    \E syncOk \in BOOLEAN, closeOk \in BOOLEAN :
        /\ pc[p] = "closing"
        /\ LET r == StorageCloseBody(syncOk, closeOk)
           IN  /\ fileOps' = fileOps \o r.ops
               /\ handle' = IF \E i \in 1..Len(r.ops) : r.ops[i].op = "close"
                            THEN "closed" ELSE handle
               /\ storage' = IF r.clear THEN [storage EXCEPT !.activeSegment = NoFile]
                             ELSE storage
               /\ ret' = [ret EXCEPT ![p] = r.ret]
        /\ pc' = [pc EXCEPT ![p] = "done"]
        /\ UNCHANGED <<dir, found, fault, engine, newErr, via, startups>>
        /\ UNCHANGED <<optionVars, apiVars>>

\* The process ends after its storage was closed; the directory stays.
ProcessExit ==
    /\ storage # NULL
    /\ storage.closed
    /\ \A p \in Callers : pc[p] \in {"idle", "done"}
    /\ startups < MaxStartups
    /\ storage' = NULL
    /\ engine' = NULL
    /\ handle' = "none"
    /\ fileOps' = <<>>
    /\ pc' = [p \in Callers |-> "idle"]
    /\ via' = [p \in Callers |-> "none"]
    /\ ret' = [p \in Callers |-> "none"]
    /\ UNCHANGED <<dir, found, fault, newErr, startups>>
    /\ UNCHANGED <<optionVars, apiVars>>

\* Index.Close with a plain store to Index.closed: every caller goes on.
IndexCloseEnter_NoCompareAndSwap(p) ==
    /\ engine # NULL
    /\ pc[p] = "idle"
    /\ via' = [via EXCEPT ![p] = "index"]
    /\ engine' = [engine EXCEPT !.index.closed = TRUE]
    /\ pc' = [pc EXCEPT ![p] = "indexClosing"]
    /\ UNCHANGED ret
    /\ UNCHANGED <<dir, found, fault, storage, newErr, handle, fileOps, startups>>
    /\ UNCHANGED <<optionVars, apiVars>>

\* Index.Close, called by a goroutine that holds the engine's index: the
\* compare-and-swap on Index.closed.
IndexCloseEnter(p) ==
    /\ engine # NULL
    /\ pc[p] = "idle"
    /\ via' = [via EXCEPT ![p] = "index"]
    /\ IF engine.index.closed
       THEN /\ pc' = [pc EXCEPT ![p] = "done"]
            /\ ret' = [ret EXCEPT ![p] = "ErrIndexClosed"]
            /\ UNCHANGED engine
       ELSE /\ engine' = [engine EXCEPT !.index.closed = TRUE]
            /\ pc' = [pc EXCEPT ![p] = "indexClosing"]
            /\ UNCHANGED ret
    /\ UNCHANGED <<dir, found, fault, storage, newErr, handle, fileOps, startups>>
    /\ UNCHANGED <<optionVars, apiVars>>

\* Index.Close: under the lock the map is cleared and set to nil, and nil
\* is returned.
IndexCloseFinish(p) ==
    /\ pc[p] = "indexClosing"
    /\ engine' = [engine EXCEPT !.index.recordPointer = NULL]
    /\ ret' = [ret EXCEPT ![p] = "nil"]
    /\ pc' = [pc EXCEPT ![p] = "done"]
    /\ UNCHANGED <<dir, found, fault, storage, newErr, handle, fileOps, via, startups>>
    /\ UNCHANGED <<optionVars, apiVars>>

\* NewInstance: the defaults are copied, the option functions applied to the
\* copy, and the instance is returned when engine.New succeeds.
NewInstance ==
    \E opts \in OptionLists :
        /\ Len(instances) < MaxInstances
        /\ LET defaultOpts == NewDefaultOptions(defaultOptions)
               r == ApplyOptions(opts, defaultOptions, defaultOpts, heap)
           IN  /\ heap' = r.h
               /\ \E ok \in BOOLEAN :
                     /\ instances' = IF ok THEN Append(instances, r.o) ELSE instances
                     /\ built' = IF ok THEN Append(built, Deref(r.o, r.h)) ELSE built
        /\ UNCHANGED <<defaultOptions, storageVars, apiVars>>

\* Instance.Set: returns nil.
InstanceSet(key, value) ==
    /\ engine # NULL
    /\ call' = [fn |-> "Set", key |-> key, value |-> value, err |-> "nil",
                sizeBefore |-> storage.size]
    /\ written' = [written EXCEPT ![key] = value]
    /\ UNCHANGED <<storageVars, optionVars>>

\* Instance.Get: returns (nil, nil).
InstanceGet(key) ==
    /\ engine # NULL
    /\ call' = [fn |-> "Get", key |-> key, value |-> "nil", err |-> "nil"]
    /\ UNCHANGED <<storageVars, optionVars, written>>

\* Instance.Delete: returns nil.
InstanceDelete(key) ==
    /\ engine # NULL
    /\ call' = [fn |-> "Delete", key |-> key, err |-> "nil"]
    /\ written' = [written EXCEPT ![key] = "deleted"]
    /\ UNCHANGED <<storageVars, optionVars>>

\* One call of a classifier or of a constructor, on any argument.
CallClassifyDirectoryCreationError ==
    \E err \in Errors :
        /\ call' = [fn |-> "ClassifyDirectoryCreationError", arg |-> err,
                    result |-> ClassifyDirectoryCreationError(err)]
        /\ UNCHANGED <<storageVars, optionVars, written>>

CallClassifyFileOpenError ==
    \E err \in Errors :
        /\ call' = [fn |-> "ClassifyFileOpenError", arg |-> err,
                    result |-> ClassifyFileOpenError(err)]
        /\ UNCHANGED <<storageVars, optionVars, written>>

CallClassifySyncError ==
    \E err \in Errors :
        /\ call' = [fn |-> "ClassifySyncError", arg |-> err,
                    result |-> ClassifySyncError(err)]
        /\ UNCHANGED <<storageVars, optionVars, written>>

\* ParseSegmentID on a name GenerateName made, joined to a directory path.
CallParseSegmentID ==
    \E id \in SegmentIds, prefix \in Prefixes, now \in Timestamps, path \in DirPaths :
        /\ call' = [fn |-> "ParseSegmentID",
                    arg |-> [id |-> id, prefix |-> prefix,
                             fullPath |-> path \o GenerateName(id, prefix, now)],
                    result |-> ParseSegmentID(path \o GenerateName(id, prefix, now), prefix)]
        /\ UNCHANGED <<storageVars, optionVars, written>>

\* WithSegmentSize and WithCompactInterval, applied to the default options.
CallWithSegmentSize ==
    \E size \in Sizes :
        /\ call' = [fn |-> "WithSegmentSize", arg |-> size,
                    before |-> Deref(NewDefaultOptions(defaultOptions), heap),
                    result |-> LET r == WithSegmentSize(size, NewDefaultOptions(defaultOptions), heap)
                               IN  Deref(r.o, r.h)]
        /\ UNCHANGED <<storageVars, optionVars, written>>

CallWithCompactInterval ==
    \E interval \in Intervals :
        /\ call' = [fn |-> "WithCompactInterval", arg |-> interval,
                    before |-> Deref(NewDefaultOptions(defaultOptions), heap),
                    result |-> LET r == WithCompactInterval(interval, NewDefaultOptions(defaultOptions), heap)
                               IN  Deref(r.o, r.h)]
        /\ UNCHANGED <<storageVars, optionVars, written>>

CallEngineNew ==
    \E config \in Configs :
        /\ call' = [fn |-> "engine.New", arg |-> config, result |-> EngineNewConfig(config)]
        /\ UNCHANGED <<storageVars, optionVars, written>>

CallStorageNew ==
    \E config \in Configs :
        /\ call' = [fn |-> "storage.New", arg |-> config, result |-> StorageNewConfig(config)]
        /\ UNCHANGED <<storageVars, optionVars, written>>

CallIndexNew ==
    \E config \in IndexConfigs :
        /\ call' = [fn |-> "index.New", arg |-> config, result |-> IndexNew(config)]
        /\ UNCHANGED <<storageVars, optionVars, written>>

\* GetErrorCode on a non-nil error of every shape.
CallGetErrorCode ==
    \E err \in ErrorChains(MaxChain) \ {NULL} :
        /\ call' = [fn |-> "GetErrorCode", arg |-> err, result |-> GetErrorCode(err)]
        /\ UNCHANGED <<storageVars, optionVars, written>>

\* Startup and shutdown cycles over one directory: one goroutine closes.
Next ==
    \/ EngineNew
    \/ EngineClose(1)
    \/ StorageCloseCall(1)
    \/ StorageCloseEnter(1)
    \/ StorageCloseFinish(1)
    \/ ProcessExit

Spec == Init /\ [][Next]_vars

\* One process whose goroutines race to close.
NextClose ==
    \/ EngineNew
    \/ \E p \in Callers : EngineClose(p)
    \/ \E p \in Callers : StorageCloseCall(p)
    \/ \E p \in Callers : StorageCloseEnter(p)
    \/ \E p \in Callers : StorageCloseFinish(p)

SpecClose == InitClose /\ [][NextClose]_vars

\* One instance and the calls of its key-value interface.
NextInstance ==
    \/ EngineNew
    \/ \E key \in Keys, value \in Values : InstanceSet(key, value)
    \/ \E key \in Keys : InstanceGet(key)
    \/ \E key \in Keys : InstanceDelete(key)

SpecInstance == InitClose /\ [][NextInstance]_vars

\* One index whose holders race to close it.
NextIndex ==
    \/ EngineNew
    \/ \E p \in Callers : IndexCloseEnter(p)
    \/ \E p \in Callers : IndexCloseFinish(p)

SpecIndex == InitClose /\ [][NextIndex]_vars

\* The classifiers and the constructors, called on their own.
NextCalls ==
    \/ CallClassifyDirectoryCreationError
    \/ CallClassifyFileOpenError
    \/ CallClassifySyncError
    \/ CallParseSegmentID
    \/ CallWithSegmentSize
    \/ CallWithCompactInterval
    \/ CallGetErrorCode
    \/ CallEngineNew
    \/ CallStorageNew
    \/ CallIndexNew

SpecCalls == InitNoStorage /\ [][NextCalls]_vars

\* One process that builds instances.
NextOptions == NewInstance

SpecOptions == InitNoStorage /\ [][NextOptions]_vars

\* ------------------------------------------------------------ properties

\* The segment files of a directory and the id each carries in its name.
SegmentNames(d) == ReadDir(d, DefaultSegmentPrefix)
IdOf(n) == ParseSegmentID(n, DefaultSegmentPrefix).val
HighestId(d) == CHOOSE i \in {IdOf(n) : n \in SegmentNames(d)} :
                    \A n \in SegmentNames(d) : IdOf(n) <= i
HighestNames(d) == {n \in SegmentNames(d) : IdOf(n) = HighestId(d)}

\* A startup succeeded and the file it opened has not been closed since.
Active == storage # NULL /\ handle = "open"

\* C1: a startup that finds segment files, the latest of them smaller than
\* the maximum size, opens that very file, creates no file and records that
\* file's size.
C1_ResumeOpensExistingFile ==
    LET latest == GetLastSegmentName(found, DefaultSegmentPrefix)
    IN  (Active /\ SegmentNames(found) # {} /\ found[latest] < SegmentSize)
            => /\ storage.activeSegment = latest
               /\ DOMAIN dir = DOMAIN found
               /\ storage.size = found[latest]

\* C2: no two segment files of the directory carry the same id.
C2_SegmentIdsDistinct ==
    \A a, b \in SegmentNames(dir) : IdOf(a) = IdOf(b) => a = b

\* C3: while a segment is active, Storage.size is the byte length of the
\* file held open as the active segment.
C3_SizeIsFileLength ==
    Active => storage.size = dir[storage.activeSegment]

\* C4: a startup that finds no segment file makes segment 1 active with
\* size 0 and creates its file.
C4_Bootstrap ==
    (Active /\ SegmentNames(found) = {})
        => /\ storage.activeSegmentId = 1
           /\ storage.size = 0
           /\ storage.activeSegment \in SegmentNames(dir) \ DOMAIN found
           /\ IdOf(storage.activeSegment) = 1
           /\ dir[storage.activeSegment] = 0

\* A startup bootstrapped in a directory that held only a foreign file.
C4_Witness ==
    /\ Active
    /\ DOMAIN found = {ForeignFile}
    /\ storage.activeSegmentId = 1
    /\ Cardinality(DOMAIN dir) = 2

\* C5: when the one segment of highest id has at least the maximum size, the
\* startup activates id + 1 with size 0 and does not open the full segment.
C5_FullSegmentStartsNext ==
    (Active /\ SegmentNames(found) # {} /\ Cardinality(HighestNames(found)) = 1
        /\ \A n \in HighestNames(found) : found[n] >= SegmentSize)
        => /\ storage.activeSegmentId = HighestId(found) + 1
           /\ storage.size = 0
           /\ storage.activeSegment \notin HighestNames(found)

\* C6: among the segment files of the directory, a smaller id sorts before a
\* larger one, and the last name in sorted order carries the highest id.
C6_NameOrderIsIdOrder ==
    /\ \A a, b \in SegmentNames(dir) : IdOf(a) < IdOf(b) => LexLess(a, b)
    /\ SegmentNames(dir) # {}
        => IdOf(GetLastSegmentName(dir, DefaultSegmentPrefix)) = HighestId(dir)

\* C7: a startup in which the directory creation, the discovery, the open or
\* the seek failed returns an error, no Storage and no Engine; an Engine
\* exists only with a Storage.
C7_StartupFailureIsFatal ==
    /\ fault # "none" => (newErr /\ storage = NULL /\ engine = NULL)
    /\ engine # NULL => storage # NULL

\* A startup failed at the seek, after the open had created the file.
C7_Witness ==
    /\ fault = "seek"
    /\ newErr
    /\ storage = NULL
    /\ DOMAIN dir # DOMAIN found

\* C8: the file is never closed before a sync of it was attempted, and a
\* Close that returns nil made exactly the calls sync, close.
C8_SyncBeforeClose ==
    /\ \A i \in 1..Len(fileOps) :
          fileOps[i].op = "close" => \E j \in 1..(i - 1) : fileOps[j].op = "sync"
    /\ handle = "closed" => \E j \in 1..Len(fileOps) : fileOps[j].op = "sync"
    /\ \A p \in Callers :
          ret[p] = "nil" => (Len(fileOps) = 2 /\ fileOps[1].op = "sync" /\ fileOps[2].op = "close")

\* The file was closed after a sync that failed.
C8_Witness ==
    /\ handle = "closed"
    /\ Len(fileOps) = 2
    /\ ~fileOps[1].ok
    /\ fileOps[2].op = "close"

\* C9: an Engine.Close that returns nil has the file synced and then closed,
\* both with success; once a sync or a close failed, no Close returns nil.
C9_NilMeansSyncedAndClosed ==
    /\ \A p \in Callers :
          (via[p] = "engine" /\ ret[p] = "nil")
              => /\ fileOps = <<[op |-> "sync", ok |-> TRUE], [op |-> "close", ok |-> TRUE]>>
                 /\ handle = "closed"
    /\ (\E i \in 1..Len(fileOps) : ~fileOps[i].ok)
          => \A p \in Callers : pc[p] = "done" => ret[p] # "nil"

\* One Engine.Close returned nil and another returned ErrEngineClosed.
C9_Witness ==
    /\ \E p \in Callers : via[p] = "engine" /\ ret[p] = "nil"
    /\ \E p \in Callers : via[p] = "engine" /\ ret[p] = "ErrEngineClosed"

\* C10: a startup that finds only ids a RecordPointer can hold activates an
\* id a RecordPointer can hold.
C10_ActiveIdWithinPointerRange ==
    (storage # NULL /\ \A n \in SegmentNames(found) : IdOf(n) <= MaxSegmentID)
        => storage.activeSegmentId <= MaxSegmentID

\* C11: building an instance's options leaves the package defaults as the
\* declarations set them, and leaves the options of every instance built
\* before as they read when that instance was built.
C11_OptionsOwnedPerInstance ==
    /\ Deref(defaultOptions, heap)
          = [DataDir |-> DefaultDataDir,
             CompactInterval |-> DefaultCompactInterval,
             SegmentOptions |-> [Size |-> DefaultSegmentSize,
                                 Prefix |-> DefaultSegmentPrefix,
                                 Directory |-> DefaultSegmentDirectory]]
    /\ \A i \in 1..Len(instances) : Deref(instances[i], heap) = built[i]

\* A configuration with something missing: nil itself, a nil logger, nil
\* options or segment options, or an empty data directory for the index.
MissingConfiguration(fn, config) ==
    \/ config = NULL
    \/ config.Logger = NULL
    \/ fn = "index.New" /\ config.DataDir = <<>>
    \/ fn # "index.New" /\ config.Options = NULL
    \/ fn # "index.New" /\ config.Options # NULL /\ config.Options.SegmentOptions = NULL

\* C12: engine.New, storage.New and index.New, given a configuration with
\* something missing, return an error of code INVALID_INPUT and no
\* instance, without a panic and without reaching the filesystem.
C12_BadConfigurationIsInvalidInput ==
    (call.fn \in {"engine.New", "storage.New", "index.New"}
        /\ MissingConfiguration(call.fn, call.arg))
        => call.result = InvalidInput

\* The error codes the classifiers can return, by cause.
CodeByCause(permissionDenied, errno) ==
    IF permissionDenied THEN "PERMISSION_DENIED"
    ELSE IF errno = "ENOSPC" THEN "DISK_FULL"
    ELSE IF errno = "EROFS" THEN "FILESYSTEM_READONLY"
    ELSE "IO_ERROR"

Classifiers ==
    {"ClassifyDirectoryCreationError", "ClassifyFileOpenError", "ClassifySyncError"}

C14_LastWriterWins ==
    call.fn = "Get"
        => /\ written[call.key] \in Values
                => (call.err = "nil" /\ call.value = written[call.key])
           /\ written[call.key] = "deleted" => call.err = "NotFound"

\* C15: when Set returned nil, the active segment has grown past the size
\* it had before the call and the index holds a pointer for the key.
C15_SetIsDurable ==
    (call.fn = "Set" /\ call.err = "nil")
        => /\ storage.size > call.sizeBefore
           /\ call.key \in DOMAIN engine.index.recordPointer

\* C16: from a successful startup until the file is closed, the Storage
\* holds one open file, that file is a segment file of the directory, and
\* activeSegmentId is the id in that file's name; no file is held open
\* without a Storage.
C16_OneActiveSegment ==
    /\ Active
          => /\ storage.activeSegment # NoFile
             /\ storage.activeSegment \in SegmentNames(dir)
             /\ ParseSegmentID(storage.activeSegment, DefaultSegmentPrefix)
                   = [ok |-> TRUE, val |-> storage.activeSegmentId]
    /\ handle = "open" => storage # NULL

\* A startup found segment 1 full and holds the file of segment 2 open.
C16_Witness ==
    /\ Active
    /\ \E n \in SegmentNames(found) : IdOf(n) = 1 /\ found[n] >= SegmentSize
    /\ storage.activeSegmentId = 2
    /\ IdOf(storage.activeSegment) = 2

\* The callers of Engine.Close that went on to Storage.Close, and the
\* callers of either Close that went past the flag of Storage.
EngineCloseWinners ==
    {p \in Callers : via[p] = "engine" /\ ~(pc[p] = "done" /\ ret[p] = "ErrEngineClosed")}
StorageCloseWinners ==
    {p \in Callers : pc[p] = "closing"
                        \/ (pc[p] = "done" /\ ret[p] \in {"nil", "SyncError", "CloseError"})}
CountOps(op) == Cardinality({i \in 1..Len(fileOps) : fileOps[i].op = op})

\* C17: of the calls of Engine.Close made so far exactly one went on to
\* shut the storage down and every other returned ErrEngineClosed; the
\* file was synced at most once and closed at most once, by at most one
\* caller, and every other caller of Storage.Close got ErrSegmentClosed.
C17_CloseAtMostOnce ==
    /\ (\E p \in Callers : via[p] = "engine") => Cardinality(EngineCloseWinners) = 1
    /\ Cardinality(StorageCloseWinners) <= 1
    /\ CountOps("sync") <= 1
    /\ CountOps("close") <= 1
    /\ \A p \in Callers :
          pc[p] = "done"
              => \/ p \in StorageCloseWinners
                 \/ via[p] = "engine" /\ ret[p] = "ErrEngineClosed"
                 \/ ret[p] = "ErrSegmentClosed"

\* While one caller is between the flag and the sync, another caller's
\* Engine.Close has returned ErrEngineClosed.
C17_Witness ==
    \E p, q \in Callers :
        /\ via[p] = "engine" /\ pc[p] = "closing"
        /\ via[q] = "engine" /\ ret[q] = "ErrEngineClosed"

\* C18: once an Engine.Close has returned nil, the storage is closed and the
\* index is closed.
C18_CloseReleasesEverySubsystem ==
    (\E p \in Callers : via[p] = "engine" /\ ret[p] = "nil")
        => /\ storage.closed
           /\ engine.index.closed

\* C19: when the sync of Storage.Close failed, the close of the file was
\* attempted exactly once, after it, and the caller got the sync error,
\* whether that close succeeded or not.
C19_SyncFailureStillCloses ==
    (Len(fileOps) >= 1 /\ fileOps[1] = [op |-> "sync", ok |-> FALSE])
        => /\ Len(fileOps) = 2
           /\ fileOps[2].op = "close"
           /\ CountOps("close") = 1
           /\ handle = "closed"
           /\ Cardinality(StorageCloseWinners) = 1
           /\ \A p \in StorageCloseWinners : ret[p] = "SyncError"

\* The sync failed, the close failed too, and the caller got the sync error.
C19_Witness ==
    /\ fileOps = <<[op |-> "sync", ok |-> FALSE], [op |-> "close", ok |-> FALSE]>>
    /\ \E p \in Callers : ret[p] = "SyncError"

\* C20: a Storage marked closed stays marked closed, whatever the Close
\* that marked it returns; a Storage.Close that finds it marked returns
\* ErrSegmentClosed and leaves the file and the Storage as they are; and
\* activeSegment is cleared only in the step in which a Close returns nil.
C20_FailedCloseIsFinal ==
    [][/\ (storage # NULL /\ storage.closed) => (storage' # NULL /\ storage'.closed)
       /\ \A p \in Callers :
             (pc[p] = "storageClose" /\ storage.closed /\ pc'[p] # pc[p])
                 => /\ ret'[p] = "ErrSegmentClosed"
                    /\ fileOps' = fileOps
                    /\ handle' = handle
                    /\ storage' = storage
       /\ (storage # NULL /\ storage' # NULL
             /\ storage.activeSegment # NoFile /\ storage'.activeSegment = NoFile)
             => \E p \in Callers : ret[p] # "nil" /\ ret'[p] = "nil"
       /\ \A p \in Callers :
             (ret[p] # ret'[p] /\ ret'[p] \in {"SyncError", "CloseError"})
                 => (storage'.closed /\ storage'.activeSegment # NoFile)]_vars

\* A Close failed, the file reference is still set, and a later
\* Storage.Close has returned ErrSegmentClosed.
C20_Witness ==
    /\ storage # NULL
    /\ storage.closed
    /\ storage.activeSegment # NoFile
    /\ \E p, q \in Callers :
          /\ ret[p] \in {"SyncError", "CloseError"}
          /\ ret[q] = "ErrSegmentClosed"

\* The callers of Index.Close that went past the flag of the index.
IndexCloseWinners ==
    {p \in Callers : via[p] = "index"
                        /\ (pc[p] = "indexClosing" \/ (pc[p] = "done" /\ ret[p] = "nil"))}

\* C21: of the calls of Index.Close exactly one goes past the flag; the
\* step in which it returns nil leaves the index closed with its map
\* released, and is the one step that releases it; every other call
\* returns ErrIndexClosed in a step that leaves the index as it is.
C21_IndexClosesOnce ==
    [][/\ (\E p \in Callers : via'[p] = "index") => Cardinality(IndexCloseWinners') = 1
       /\ \A p \in Callers :
             (via'[p] = "index" /\ pc'[p] = "done")
                 => ret'[p] \in {"nil", "ErrIndexClosed"}
       /\ \A p \in Callers :
             (ret'[p] # ret[p] /\ via'[p] = "index" /\ ret'[p] = "nil")
                 => /\ engine.index.recordPointer # NULL
                    /\ engine'.index = [closed |-> TRUE, recordPointer |-> NULL]
       /\ \A p \in Callers :
             (ret'[p] # ret[p] /\ ret'[p] = "ErrIndexClosed")
                 => (engine.index.closed /\ engine' = engine)
       /\ (engine # NULL /\ engine' # NULL
             /\ engine'.index.recordPointer # engine.index.recordPointer)
             => \E p \in Callers : ret'[p] # ret[p] /\ ret'[p] = "nil"]_vars

\* One Index.Close returned nil, another returned ErrIndexClosed, and the
\* map is released.
C21_Witness ==
    /\ engine # NULL
    /\ engine.index = [closed |-> TRUE, recordPointer |-> NULL]
    /\ \E p, q \in Callers :
          /\ via[p] = "index" /\ ret[p] = "nil"
          /\ via[q] = "index" /\ ret[q] = "ErrIndexClosed"

\* C22: ParseSegmentID, given a name GenerateName made from an id and a
\* non-empty prefix, alone or behind a directory path, and that prefix,
\* returns the id and no error.
C22_NameRoundTrip ==
    (call.fn = "ParseSegmentID" /\ call.arg.prefix # <<>>)
        => call.result = [ok |-> TRUE, val |-> call.arg.id]

\* C23: whatever option functions were applied, every segmentOptions
\* object has MinSegmentSize <= Size <= MaxSegmentSize, and so have the
\* options of every instance.
C23_SegmentSizeWithinBounds ==
    /\ \A a \in DOMAIN heap :
          MinSegmentSize <= heap[a].Size /\ heap[a].Size <= MaxSegmentSize
    /\ \A i \in 1..Len(instances) :
          /\ MinSegmentSize <= Deref(instances[i], heap).SegmentOptions.Size
          /\ Deref(instances[i], heap).SegmentOptions.Size <= MaxSegmentSize
          /\ MinSegmentSize <= built[i].SegmentOptions.Size
          /\ built[i].SegmentOptions.Size <= MaxSegmentSize

\* An instance was built with a size other than the default.
C23_Witness ==
    /\ Len(instances) >= 1
    /\ built[1].SegmentOptions.Size = MaxSegmentSize - 1
    /\ heap[DefaultsAddr].Size # built[1].SegmentOptions.Size

\* C24: WithSegmentSize(s) sets Size to s for every s with
\* MinSegmentSize <= s <= MaxSegmentSize, the two ends included, and
\* leaves Size as it was for every other s.
C24_SegmentSizeRangeInclusive ==
    call.fn = "WithSegmentSize"
        => IF MinSegmentSize <= call.arg /\ call.arg <= MaxSegmentSize
           THEN call.result.SegmentOptions.Size = call.arg
           ELSE call.result.SegmentOptions.Size = call.before.SegmentOptions.Size

\* C25: WithCompactInterval(interval) sets CompactInterval to interval for
\* every positive interval, also one shorter than the default.
C25_CompactIntervalSet ==
    (call.fn = "WithCompactInterval" /\ call.arg > 0)
        => call.result.CompactInterval = call.arg

\* The types of the errors of a chain, outermost first.
RECURSIVE ChainTypes(_)
ChainTypes(err) ==
    IF err = NULL THEN <<>>
    ELSE IF "cause" \in DOMAIN err THEN <<err.type>> \o ChainTypes(err.cause)
    ELSE <<err.type>>

TypedErrors == {"*ValidationError", "*StorageError", "*IndexError"}

\* C26: GetErrorCode of an error that is itself a ValidationError, a
\* StorageError or an IndexError is that error's own code, whatever it wraps;
\* of an error with none of the three types in its chain it is INTERNAL_ERROR.
C26_CodeOfTheErrorGiven ==
    call.fn = "GetErrorCode"
        => /\ call.arg.type \in TypedErrors => call.result = call.arg.code
           /\ (\A i \in DOMAIN ChainTypes(call.arg) :
                    ChainTypes(call.arg)[i] \notin TypedErrors)
                  => call.result = "INTERNAL_ERROR"

\* C27: the active segment id a startup chooses is at least the id of every
\* segment file present when it started; the files earlier startups made
\* active are among them, so it is at least every earlier active id.
C27_ActiveIdNeverBackwards ==
    storage # NULL
        => \A n \in SegmentNames(found) : storage.activeSegmentId >= IdOf(n)

====
